---- MODULE Spec2Model ----
(***************************************************************************)
(* The feedback portal's API service (backend/main.py) over its store      *)
(* (backend/models.py): one action per HTTP endpoint, each action the      *)
(* whole handler, requests handled one at a time.                          *)
(***************************************************************************)
EXTENDS Integers, Sequences, FiniteSets, TLC

\* ------------------------------------------------------------------ bounds
\* The number of records the store ever assigns an id to.
MaxId == 2
\* The last reading of the clock (readings are 0..MaxClock).
MaxClock == 1

\* ------------------------------------------------------------ value domains
\* Optional[T]: None or a value, as a sequence of length at most one.
None == <<>>
Some(x) == <<x>>

\* A submitted form as the JSON body of POST /feedback.
Submission(name, rating) ==
    [ name    |-> name,
      email   |-> IF name = "Alice" THEN "alice@example.com"
                  ELSE IF name = "Bob" THEN "bob@example.com"
                  ELSE "carol@example.com",
      message |-> IF name = "Alice" THEN "Great!"
                  ELSE IF name = "Bob" THEN "Slow"
                  ELSE "Fine",
      rating  |-> rating ]

\* The JSON bodies POST /feedback is called with: ratings at both ends of
\* [1,5], in its middle, and outside it on either side.
Payloads ==
    { Submission("Alice", 5), Submission("Bob", 1), Submission("Carol", 3),
      Submission("Alice", 0), Submission("Bob", 6), Submission("Carol", -1) }

\* The texts an admin responds with; "" is a string and passes the schema.
Texts == {"Thanks!", ""}

\* The "response" member of the JSON bodies POST /feedback/{id}/respond is
\* called with: a string, or null.
ResponseInputs == {Some(t) : t \in Texts} \cup {None}

\* The ids requests target: every id the store can assign, and one it cannot.
Ids == 1..(MaxId + 1)

\* The worker threads that run the handlers of requests in flight together.
Threads == {"t1", "t2"}

\* A thread with no request in hand.
Idle == [pc |-> "idle", id |-> 0, body |-> <<>>]

\* -------------------------------------------------------------------- state
VARIABLES
    store,      \* the feedbacks table: id -> row
    seq,        \* the store's id sequence: the last id it assigned
    clock,      \* the last reading of the clock
    assigned,   \* history: every id a create has returned
    req,        \* the request handled last
    prior,      \* the response the last respond found on its row, before writing
    resp,       \* the response to the request handled last
    view,       \* the client route served last
    net,        \* how the last client route's API call went
    calls,      \* the API requests the last client route attempted
    form,       \* the text posted to the last respond route, if that was the route
    flashed,    \* the messages the last client route flashed
    shown,      \* the ids of the entries the dashboard displayed last, in order
    sess        \* per worker thread: the request it is handling, between its
                \* query and its commit

\* The API service's state and the client application's.
apiVars == <<store, seq, clock, assigned, req, prior, resp>>
clientVars == <<view, net, calls, form, flashed, shown>>

vars == <<store, seq, clock, assigned, req, prior, resp,
          view, net, calls, form, flashed, shown, sess>>

\* ------------------------------------------------------------------ schemas
\* FeedbackResponseCreate with "response" declared Optional[str].
FeedbackResponseCreateOptional(body) == TRUE

\* models.FeedbackResponseCreate: "response" is a str, null is rejected.
FeedbackResponseCreate(body) == body # None

\* Feedback(...) with the name and email columns filled from each other.
FeedbackSwapped(payload, id, now) ==
    [ id           |-> id,
      name         |-> payload.email,
      email        |-> payload.name,
      message      |-> payload.message,
      rating       |-> payload.rating,
      response     |-> None,
      created_at   |-> now,
      responded_at |-> None ]

\* models.Feedback(**feedback.model_dump()), flushed: the row as inserted,
\* with the id the store assigns and created_at the store's now().
Feedback(payload, id, now) ==
    [ id           |-> id,
      name         |-> payload.name,
      email        |-> payload.email,
      message      |-> payload.message,
      rating       |-> payload.rating,
      response     |-> None,
      created_at   |-> now,
      responded_at |-> None ]

\* models.FeedbackOut (from_attributes): the JSON shape of a row.
FeedbackOut(row) ==
    [ id           |-> row.id,
      name         |-> row.name,
      email        |-> row.email,
      message      |-> row.message,
      rating       |-> row.rating,
      response     |-> row.response,
      created_at   |-> row.created_at,
      responded_at |-> row.responded_at ]

\* -------------------------------------------------------------------- store
\* The id the store gives the next inserted row.
AssignIdMaxPlusOne(s, last) ==
    IF DOMAIN s = {} THEN 1
    ELSE (CHOOSE m \in DOMAIN s : \A i \in DOMAIN s : i <= m) + 1

AssignId(s, last) == last + 1

\* The query without its filter: the first row of the table, whatever its id.
QueryFirstUnfiltered(s, feedback_id) ==
    IF DOMAIN s = {} THEN None
    ELSE Some(s[CHOOSE m \in DOMAIN s : \A i \in DOMAIN s : m <= i])

\* db.query(Feedback).filter(Feedback.id == feedback_id).first()
QueryFirst(s, feedback_id) ==
    IF feedback_id \in DOMAIN s THEN Some(s[feedback_id]) ELSE None

\* The readings a handler can take of the clock: it never runs backwards.
ClockReadings == { t \in clock..(clock + 1) : t <= MaxClock }

\* The rating check with its lower end off by one.
RatingInRangeFromZero(rating) == 0 <= rating /\ rating <= 5

\* The rating check without its upper end.
RatingInRangeNoUpper(rating) == 1 <= rating

\* The check of create_feedback on the rating.
RatingInRange(rating) == 1 <= rating /\ rating <= 5

\* The orders ORDER BY created_at DESC can return the rows of s in: every
\* row once, created_at never increasing; rows of equal created_at in any
\* order.
OrderByCreatedAtDesc(s) ==
    LET n == Cardinality(DOMAIN s)
    IN { l \in [1..n -> DOMAIN s] :
           /\ \A i, j \in 1..n : i # j => l[i] # l[j]
           /\ \A i \in 1..n : i < n => s[l[i]].created_at >= s[l[i + 1]].created_at }

\* respond_to_feedback writing the response and not its time.
SetResponseOnly(row, body, now) == [row EXCEPT !.response = body]

\* respond_to_feedback stamping responded_at on the first response only.
SetResponseFirstTime(row, body, now) ==
    [row EXCEPT !.response = body,
                !.responded_at = IF row.responded_at = None THEN Some(now)
                                 ELSE row.responded_at]

\* fb.response = body.response; fb.responded_at = datetime.utcnow()
SetResponse(row, body, now) ==
    [row EXCEPT !.response = body, !.responded_at = Some(now)]

\* A delete filtered on the submitter's name instead of the id.
DbDeleteByName(s, row) ==
    [i \in {j \in DOMAIN s : s[j].name # row.name} |-> s[i]]

\* db.delete(fb); db.commit()
DbDelete(s, row) == [i \in DOMAIN s \ {row.id} |-> s[i]]

\* What get_feedback answers on store s: the row's JSON, or 404.
GetFeedback(s, feedback_id) ==
    LET fb == QueryFirst(s, feedback_id)
    IN IF fb = None THEN [status |-> 404, body |-> <<>>]
       ELSE [status |-> 200, body |-> <<FeedbackOut(fb[1])>>]

\* A request as the handler receives it, and the response it returns.
Request(op, id, payload, response) ==
    [op |-> op, id |-> id, payload |-> payload, response |-> response]

Response(status, body) == [status |-> status, body |-> body]

\* --------------------------------------------------------------------- Init
Init ==
    /\ store = <<>>
    /\ seq = 0
    /\ clock = 0
    /\ assigned = {}
    /\ req = Request("health", 0, None, None)
    /\ prior = None
    /\ resp = Response(200, <<>>)
    /\ view = "none"
    /\ net = "none"
    /\ calls = 0
    /\ form = None
    /\ flashed = <<>>
    /\ shown = <<>>
    /\ sess = [t \in Threads |-> Idle]

\* ------------------------------------------------------------------ actions
\* create_feedback checking the rating after the commit instead of before.
create_feedback_CheckAfterCommit(feedback) ==
    /\ seq < MaxId
    /\ req' = Request("create", 0, Some(feedback), None)
    /\ prior' = None
    /\ \E now \in ClockReadings :
         LET id == AssignId(store, seq)
             db_feedback == Feedback(feedback, id, now)
         IN /\ store' = [i \in DOMAIN store \cup {id} |->
                           IF i = id THEN db_feedback ELSE store[i]]
            /\ seq' = id
            /\ clock' = now
            /\ assigned' = assigned \cup {id}
            /\ resp' = IF ~RatingInRange(feedback.rating)
                       THEN Response(422, <<>>)
                       ELSE Response(201, <<FeedbackOut(db_feedback)>>)

\* POST /feedback
create_feedback(feedback) ==
    /\ seq < MaxId
    /\ req' = Request("create", 0, Some(feedback), None)
    /\ prior' = None
    /\ IF ~RatingInRange(feedback.rating)
       THEN /\ resp' = Response(422, <<>>)
            /\ UNCHANGED <<store, seq, clock, assigned>>
       ELSE \E now \in ClockReadings :
              LET id == AssignId(store, seq)
                  db_feedback == Feedback(feedback, id, now)
              IN /\ store' = [i \in DOMAIN store \cup {id} |->
                                IF i = id THEN db_feedback ELSE store[i]]
                 /\ seq' = id
                 /\ clock' = now
                 /\ assigned' = assigned \cup {id}
                 /\ resp' = Response(201, <<FeedbackOut(db_feedback)>>)

\* GET /feedback
list_feedback ==
    /\ req' = Request("list", 0, None, None)
    /\ prior' = None
    /\ \E l \in OrderByCreatedAtDesc(store) :
         resp' = Response(200, [i \in DOMAIN l |-> FeedbackOut(store[l[i]])])
    /\ UNCHANGED <<store, seq, clock, assigned>>

\* GET /feedback/{feedback_id}
get_feedback(feedback_id) ==
    /\ req' = Request("get", feedback_id, None, None)
    /\ prior' = None
    /\ resp' = GetFeedback(store, feedback_id)
    /\ UNCHANGED <<store, seq, clock, assigned>>

\* DELETE /feedback/{feedback_id}
delete_feedback(feedback_id) ==
    LET fb == QueryFirst(store, feedback_id)
    IN /\ req' = Request("delete", feedback_id, None, None)
       /\ prior' = None
       /\ IF fb = None
          THEN /\ resp' = Response(404, <<>>)
               /\ store' = store
          ELSE /\ store' = DbDelete(store, fb[1])
               /\ resp' = Response(204, <<>>)
       /\ UNCHANGED <<seq, clock, assigned>>

\* POST /feedback/{feedback_id}/respond
respond_to_feedback(feedback_id, body) ==
    LET fb == QueryFirst(store, feedback_id)
    IN /\ req' = Request("respond", feedback_id, None, body)
       /\ IF ~FeedbackResponseCreate(body)
          THEN /\ resp' = Response(422, <<>>)
               /\ prior' = None
               /\ UNCHANGED <<store, clock>>
          ELSE IF fb = None
          THEN /\ resp' = Response(404, <<>>)
               /\ prior' = None
               /\ UNCHANGED <<store, clock>>
          ELSE \E now \in ClockReadings :
                 LET row == SetResponse(fb[1], body, now)
                 IN /\ store' = [store EXCEPT ![feedback_id] = row]
                    /\ prior' = fb[1].response
                    /\ clock' = now
                    /\ resp' = Response(200, <<FeedbackOut(row)>>)
       /\ UNCHANGED <<seq, assigned>>

\* The API called directly, one request at a time.
Next ==
    \/ \E feedback \in Payloads :
         create_feedback(feedback) /\ UNCHANGED <<clientVars, sess>>
    \/ list_feedback /\ UNCHANGED <<clientVars, sess>>
    \/ \E feedback_id \in Ids :
         get_feedback(feedback_id) /\ UNCHANGED <<clientVars, sess>>
    \/ \E feedback_id \in Ids :
         delete_feedback(feedback_id) /\ UNCHANGED <<clientVars, sess>>
    \/ \E feedback_id \in Ids, body \in ResponseInputs :
         respond_to_feedback(feedback_id, body) /\ UNCHANGED <<clientVars, sess>>

Spec == Init /\ [][Next]_vars

\* ------------------------------------------------------------------- client
\* Form fields are sequences of characters, so that strip() is computed.
IsSpace(c) == c \in {" ", "\t", "\n"}

RECURSIVE LStrip(_)
LStrip(s) == IF s # <<>> /\ IsSpace(Head(s)) THEN LStrip(Tail(s)) ELSE s

RECURSIVE RStrip(_)
RStrip(s) ==
    IF s # <<>> /\ IsSpace(s[Len(s)]) THEN RStrip(SubSeq(s, 1, Len(s) - 1)) ELSE s

\* str.strip()
Strip(s) == RStrip(LStrip(s))

\* int() of one decimal digit.
Digit(c) ==
    CASE c = "0" -> 0 [] c = "1" -> 1 [] c = "2" -> 2 [] c = "3" -> 3
      [] c = "4" -> 4 [] c = "5" -> 5 [] c = "6" -> 6 [] c = "7" -> 7
      [] c = "8" -> 8 [] c = "9" -> 9

RECURSIVE IntOf(_)
IntOf(s) == IF Len(s) = 1 THEN Digit(s[1])
            ELSE 10 * IntOf(SubSeq(s, 1, Len(s) - 1)) + Digit(s[Len(s)])

\* int(request.form.get("rating", 3))
FormRating(field) == IF field = None THEN 3 ELSE IntOf(field[1])

\* The payload the submission route builds from the posted form.
FormPayload(f) ==
    [ name    |-> Strip(f.name),
      email   |-> Strip(f.email),
      message |-> Strip(f.message),
      rating  |-> FormRating(f.rating) ]

\* The forms posted to "/": one to be stripped, one whose name is blank,
\* one rated 0.
Forms ==
    { [name |-> <<" ", "A", "l">>, email |-> <<"a", "@", "x">>,
       message |-> <<"o", "k", " ">>, rating |-> Some(<<"5">>)],
      [name |-> <<" ", "\t">>, email |-> <<"b", "@", "x">>,
       message |-> <<"o", "k">>, rating |-> None],
      [name |-> <<"D">>, email |-> <<"d", "@", "x">>,
       message |-> <<"n", "o">>, rating |-> Some(<<"0">>)] }

\* The texts posted to "/admin/respond/<id>": one to be stripped, one blank.
ResponseForms == { <<" ", "T", "y">>, <<" ", " ">> }

\* How a request of the client to the API can go: answered in time; the
\* connection refused; the connection not made within the timeout; the
\* connection made and no answer within the timeout.
Outcomes == {"ok", "refused", "connect_timeout", "read_timeout"}

\* requests raises ConnectionError, which ConnectTimeout is a subclass of
\* and ReadTimeout is not.
RaisesConnectionError(outcome) == outcome \in {"refused", "connect_timeout"}

\* The request reaches the API's handler: always when answered in time, and
\* possibly when the client stopped waiting for the answer.
ReachesHandler(outcome) ==
    IF outcome = "ok" THEN {TRUE}
    ELSE IF outcome = "read_timeout" THEN {TRUE, FALSE}
    ELSE {FALSE}

\* The entries admin.html renders from feedbacks, one card per record,
\* its forms addressed by the record's id.
Cards(feedbacks) == [k \in DOMAIN feedbacks |-> feedbacks[k].id]

\* flash(message, category)
Flash(category, message) == [category |-> category, message |-> message]

CannotReach ==
    Flash("danger", "Cannot reach the backend. Make sure the FastAPI server is running.")

\* What the route flashes after its request: the handlers' try/except.
FlashAfter(outcome, status, success, failure) ==
    IF RaisesConnectionError(outcome) THEN CannotReach
    ELSE IF outcome = "read_timeout" \/ status >= 400 THEN Flash("danger", failure)
    ELSE Flash("success", success)

\* POST "/"
feedback(f, outcome) ==
    /\ view' = "feedback"
    /\ net' = outcome
    /\ calls' = 1
    /\ form' = None
    /\ \E handled \in ReachesHandler(outcome) :
         IF handled THEN create_feedback(FormPayload(f)) ELSE UNCHANGED apiVars
    /\ flashed' = << FlashAfter(outcome, resp'.status,
                       "Thank you! Your feedback has been submitted successfully.",
                       "Submission failed") >>
    /\ shown' = shown

\* The dashboard route showing the last list when its request fails.
admin_KeepsList(outcome) ==
    /\ view' = "admin"
    /\ net' = outcome
    /\ calls' = 1
    /\ form' = None
    /\ \E handled \in ReachesHandler(outcome) :
         IF handled THEN list_feedback ELSE UNCHANGED apiVars
    /\ IF outcome = "ok"
       THEN /\ shown' = Cards(resp'.body)
            /\ flashed' = <<>>
       ELSE /\ shown' = shown
            /\ flashed' = << FlashAfter(outcome, 200, "", "Error loading feedback") >>

\* GET "/admin"
admin(outcome) ==
    /\ view' = "admin"
    /\ net' = outcome
    /\ calls' = 1
    /\ form' = None
    /\ \E handled \in ReachesHandler(outcome) :
         IF handled THEN list_feedback ELSE UNCHANGED apiVars
    /\ IF outcome = "ok"
       THEN /\ shown' = Cards(resp'.body)
            /\ flashed' = <<>>
       ELSE /\ shown' = <<>>
            /\ flashed' = << FlashAfter(outcome, 200, "", "Error loading feedback") >>

\* POST "/admin/respond/<feedback_id>", from the form of the entry the
\* dashboard displays at position i.
respond(i, text, outcome) ==
    LET feedback_id == shown[i]
        response_text == Strip(text)
    IN /\ i \in 1..Len(shown)
       /\ view' = "respond"
       /\ net' = outcome
       /\ form' = Some(text)
       /\ shown' = shown
       /\ IF response_text = <<>>
          THEN /\ calls' = 0
               /\ flashed' = << Flash("warning", "Response cannot be empty.") >>
               /\ UNCHANGED apiVars
          ELSE /\ calls' = 1
               /\ \E handled \in ReachesHandler(outcome) :
                    IF handled
                    THEN respond_to_feedback(feedback_id, Some(response_text))
                    ELSE UNCHANGED apiVars
               /\ flashed' = << FlashAfter(outcome, resp'.status,
                                  "Response sent successfully!",
                                  "Failed to send response") >>

\* The dashboard's delete, confirmed for the entry displayed at position i:
\* the API's delete endpoint is called with the entry's id, then the list
\* is fetched and displayed again.
dashboard_delete(i) ==
    /\ i \in 1..Len(shown)
    /\ view' = "delete"
    /\ net' = "ok"
    /\ calls' = 2
    /\ form' = None
    /\ flashed' = <<>>
    /\ delete_feedback(shown[i])
    /\ \E l \in OrderByCreatedAtDesc(store') :
         shown' = Cards([k \in DOMAIN l |-> FeedbackOut(store'[l[k]])])

\* The client application over the API: every request comes from a route
\* of the client or from the dashboard page.
NextClient ==
    \/ \E f \in Forms, outcome \in Outcomes :
         feedback(f, outcome) /\ UNCHANGED sess
    \/ \E outcome \in Outcomes : admin(outcome) /\ UNCHANGED sess
    \/ \E i \in 1..MaxId, text \in ResponseForms, outcome \in Outcomes :
         respond(i, text, outcome) /\ UNCHANGED sess
    \/ \E i \in 1..MaxId : dashboard_delete(i) /\ UNCHANGED sess

SpecClient == Init /\ [][NextClient]_vars

\* -------------------------------------------------------------- concurrency
\* Handlers of several requests run in worker threads, each with a session
\* of its own: the query of a handler and its commit are separate steps,
\* and steps of other handlers come between them.

\* The bodies POST /feedback is called with while requests run together.
ConcPayloads == { Submission("Alice", 5), Submission("Bob", 6) }

\* A commit that writes the whole row back, inserting it when it is gone.
CommitUpdateUpsert(s, id, body, now) ==
    LET row == IF id \in DOMAIN s THEN s[id]
               ELSE Feedback(Submission("Alice", 5), id, now)
    IN [i \in DOMAIN s \cup {id} |->
          IF i = id THEN SetResponse(row, body, now) ELSE s[i]]

\* db.commit() of respond_to_feedback: the session flushes one UPDATE of
\* the two changed columns of the row with the loaded row's id; it matches
\* no row when the row is gone, and the store stays as it is.
CommitUpdate(s, id, body, now) ==
    IF id \in DOMAIN s
    THEN [s EXCEPT ![id] = SetResponse(s[id], body, now)]
    ELSE s

\* db.commit() of delete_feedback: one DELETE of the row with the loaded
\* row's id.
CommitDelete(s, id) == [i \in DOMAIN s \ {id} |-> s[i]]

\* respond_to_feedback up to its query.
respond_query(t, feedback_id, body) ==
    /\ sess[t].pc = "idle"
    /\ FeedbackResponseCreate(body)
    /\ IF QueryFirst(store, feedback_id) = None
       THEN /\ req' = Request("respond", feedback_id, None, body)
            /\ resp' = Response(404, <<>>)
            /\ prior' = None
            /\ sess' = sess
       ELSE /\ sess' = [sess EXCEPT ![t] =
                          [pc |-> "respond", id |-> feedback_id, body |-> body]]
            /\ UNCHANGED <<req, resp, prior>>
    /\ UNCHANGED <<store, seq, clock, assigned, clientVars>>

\* respond_to_feedback from its assignments on: the commit, and the answer
\* (a server error when the UPDATE matched no row).
respond_commit(t) ==
    /\ sess[t].pc = "respond"
    /\ \E now \in ClockReadings :
         /\ store' = CommitUpdate(store, sess[t].id, sess[t].body, now)
         /\ clock' = now
         /\ resp' = IF sess[t].id \in DOMAIN store
                    THEN Response(200, <<FeedbackOut(store'[sess[t].id])>>)
                    ELSE Response(500, <<>>)
    /\ req' = Request("respond", sess[t].id, None, sess[t].body)
    /\ prior' = None
    /\ sess' = [sess EXCEPT ![t] = Idle]
    /\ UNCHANGED <<seq, assigned, clientVars>>

\* delete_feedback up to its query.
delete_query(t, feedback_id) ==
    /\ sess[t].pc = "idle"
    /\ IF QueryFirst(store, feedback_id) = None
       THEN /\ req' = Request("delete", feedback_id, None, None)
            /\ resp' = Response(404, <<>>)
            /\ prior' = None
            /\ sess' = sess
       ELSE /\ sess' = [sess EXCEPT ![t] =
                          [pc |-> "delete", id |-> feedback_id, body |-> None]]
            /\ UNCHANGED <<req, resp, prior>>
    /\ UNCHANGED <<store, seq, clock, assigned, clientVars>>

\* delete_feedback from db.delete(fb) on; a DELETE that matches no row is
\* a warning of the session, not an error.
delete_commit(t) ==
    /\ sess[t].pc = "delete"
    /\ store' = CommitDelete(store, sess[t].id)
    /\ req' = Request("delete", sess[t].id, None, None)
    /\ resp' = Response(204, <<>>)
    /\ prior' = None
    /\ sess' = [sess EXCEPT ![t] = Idle]
    /\ UNCHANGED <<seq, clock, assigned, clientVars>>

\* Requests handled together: create_feedback queries nothing and is one
\* step (its check, its INSERT and its commit).
NextConc ==
    \/ \E payload \in ConcPayloads :
         create_feedback(payload) /\ UNCHANGED <<clientVars, sess>>
    \/ \E t \in Threads, feedback_id \in Ids, body \in ResponseInputs :
         respond_query(t, feedback_id, body)
    \/ \E t \in Threads : respond_commit(t)
    \/ \E t \in Threads, feedback_id \in Ids : delete_query(t, feedback_id)
    \/ \E t \in Threads : delete_commit(t)

SpecConc == Init /\ [][NextConc]_vars

\* ------------------------------------------------------------------- claims
InRange(r) == r \in {1, 2, 3, 4, 5}

\* C1: a POST /feedback with rating r answers 201 and adds exactly one
\* record, carrying r, if and only if 1 <= r <= 5; for every other r it
\* answers 422 and the store is as it was.
C1_CreateIffRatingInRange ==
    [][ req'.op = "create" =>
          LET r == req'.payload[1].rating
          IN IF InRange(r)
             THEN /\ resp'.status = 201
                  /\ \E id \in DOMAIN store' \ DOMAIN store :
                       /\ DOMAIN store' = DOMAIN store \cup {id}
                       /\ store'[id].rating = r
                       /\ \A i \in DOMAIN store : store'[i] = store[i]
             ELSE /\ resp'.status = 422
                  /\ store' = store ]_vars

\* C1 witness: a create was rejected for its rating while the store held a
\* record, and the store still holds it.
C1_Witness ==
    /\ req.op = "create"
    /\ resp.status = 422
    /\ ~InRange(req.payload[1].rating)
    /\ store # <<>>

\* C2: every stored record has a rating in [1,5].
C2_RatingAlwaysInRange == \A id \in DOMAIN store : InRange(store[id].rating)

\* C2 witness: after creates, a respond and a delete, the store holds a
\* responded record with rating 5.
C2_Witness ==
    /\ \E id \in DOMAIN store :
         store[id].rating = 5 /\ store[id].response # None
    /\ \E id \in assigned : id \notin DOMAIN store

\* C3: for every stored record, responded_at is set if and only if
\* response is set.
C3_RespondedAtIffResponse ==
    \A id \in DOMAIN store :
      (store[id].responded_at # None) <=> (store[id].response # None)

\* C3 witness: the store holds a record never responded to and a record
\* responded to.
C3_Witness ==
    \E i, j \in DOMAIN store :
      /\ store[i].response = None /\ store[i].responded_at = None
      /\ store[j].response # None /\ store[j].responded_at # None

\* C4: the id a create assigns was never assigned before, to a stored or a
\* deleted record, and is greater than every id assigned before.
C4_IdNeverReused ==
    [][ (req'.op = "create" /\ resp'.status = 201) =>
          LET id == resp'.body[1].id
          IN /\ id \notin assigned
             /\ \A j \in assigned : j < id
             /\ id \notin DOMAIN store
             /\ id \in DOMAIN store' /\ store'[id].id = id ]_vars

\* C4 witness: a create succeeded after the record with the highest id had
\* been deleted.
C4_Witness ==
    /\ req.op = "create"
    /\ resp.status = 201
    /\ \E j \in assigned :
         /\ j \notin DOMAIN store
         /\ j < resp.body[1].id
         /\ \A i \in DOMAIN store : i # resp.body[1].id => i < j

\* C5: a get, delete or respond request (one the schema admits) on an id
\* absent from the store answers 404, whether the id was deleted or never
\* existed; and the id of a delete that answered 204 is absent afterwards.
C5_AbsentIdNotFound ==
    [][ /\ ( /\ req'.op \in {"get", "delete", "respond"}
             /\ (req'.op = "respond" => req'.response # None)
             /\ req'.id \notin DOMAIN store )
           => resp'.status = 404
        /\ (req'.op = "delete" /\ resp'.status = 204)
           => req'.id \notin DOMAIN store' ]_vars

\* C5 witness: a request on a deleted id was answered 404 while the store
\* held another record.
C5_Witness ==
    /\ req.op \in {"get", "delete", "respond"}
    /\ req.id \in assigned
    /\ req.id \notin DOMAIN store
    /\ resp.status = 404
    /\ store # <<>>

\* C6: after a respond on an existing record, the record's response is the
\* text of that call and its responded_at the time of that call, whatever
\* an earlier respond wrote; the same text again leaves the response as it
\* was.
C6_RespondKeepsLatest ==
    (req.op = "respond" /\ resp.status = 200) =>
      /\ req.id \in DOMAIN store
      /\ store[req.id].response = req.response
      /\ store[req.id].responded_at = Some(clock)
      /\ resp.body[1].response = req.response
      /\ resp.body[1].responded_at = Some(clock)
      /\ (prior = req.response => store[req.id].response = prior)

\* C6 witness: a respond overwrote an earlier response of another text, at
\* a later time than the record's creation.
C6_Witness ==
    /\ req.op = "respond"
    /\ resp.status = 200
    /\ prior # None
    /\ prior # req.response
    /\ resp.body[1].created_at < clock

\* Every record of the store is listed exactly once, and nothing else.
ListsEveryRecordOnce ==
    /\ Len(resp.body) = Cardinality(DOMAIN store)
    /\ \A id \in DOMAIN store :
         \E i \in 1..Len(resp.body) :
           /\ resp.body[i] = FeedbackOut(store[id])
           /\ \A j \in 1..Len(resp.body) : resp.body[j].id = id => j = i

\* created_at never increases along the list.
ListedByCreatedAtDesc ==
    \A i \in 1..Len(resp.body) :
      i < Len(resp.body) => resp.body[i].created_at >= resp.body[i + 1].created_at

\* A record inserted later (ids are assigned in insertion order) is never
\* listed after one inserted earlier.
ListedNewestInsertFirst ==
    \A i, j \in 1..Len(resp.body) : i < j => resp.body[i].id > resp.body[j].id

\* C7: list returns every stored record exactly once and no deleted one,
\* ordered by created_at descending, a record inserted later never after
\* one inserted earlier.
C7_ListNewestFirst ==
    req.op = "list" =>
      ListsEveryRecordOnce /\ ListedByCreatedAtDesc /\ ListedNewestInsertFirst

\* The part of C7 the handler's ORDER BY gives: every record once, by
\* created_at descending.
ListByCreatedAt ==
    req.op = "list" => ListsEveryRecordOnce /\ ListedByCreatedAtDesc

\* C8: a get of the id a create just returned answers the record with the
\* submitted name, email, message and rating, the assigned id and
\* created_at, and neither response nor responded_at.
C8_GetAfterInsert ==
    (req.op = "create" /\ resp.status = 201) =>
      LET input == req.payload[1]
          made == resp.body[1]
          got == GetFeedback(store, made.id)
      IN /\ got.status = 200
         /\ got.body[1].name = input.name
         /\ got.body[1].email = input.email
         /\ got.body[1].message = input.message
         /\ got.body[1].rating = input.rating
         /\ got.body[1].id = made.id
         /\ got.body[1].created_at = made.created_at
         /\ got.body[1].created_at = clock
         /\ got.body[1].response = None
         /\ got.body[1].responded_at = None

\* C8 witness: a create succeeded in a store that already held a record of
\* another submitter.
C8_Witness ==
    /\ req.op = "create"
    /\ resp.status = 201
    /\ \E i \in DOMAIN store : store[i].name # req.payload[1].name

\* C9: a stored record whose response is set still has it set after every
\* step that keeps the record.
C9_NoReturnToPending ==
    [][ \A id \in DOMAIN store \cap DOMAIN store' :
          store[id].response # None => store'[id].response # None ]_vars

\* C9 witness: a responded record was responded to again, with the empty
\* text, and is still responded.
C9_Witness ==
    /\ req.op = "respond"
    /\ resp.status = 200
    /\ prior # None
    /\ req.response = Some("")
    /\ store[req.id].response # None

\* C10: a record's id, name, email, message, rating and created_at are the
\* same after every step that keeps it; a respond keeps every record,
\* leaves all but its own unchanged; a delete removes its own record and
\* leaves the others unchanged; no record is added but by a create.
C10_Frame ==
    [][ /\ \A id \in DOMAIN store \cap DOMAIN store' :
             /\ store'[id].id = store[id].id
             /\ store'[id].name = store[id].name
             /\ store'[id].email = store[id].email
             /\ store'[id].message = store[id].message
             /\ store'[id].rating = store[id].rating
             /\ store'[id].created_at = store[id].created_at
        /\ req'.op = "respond" =>
             /\ DOMAIN store' = DOMAIN store
             /\ \A id \in DOMAIN store \ {req'.id} : store'[id] = store[id]
        /\ req'.op = "delete" =>
             /\ DOMAIN store \ {req'.id} = DOMAIN store'
             /\ \A id \in DOMAIN store' : store'[id] = store[id]
        /\ req'.op \in {"get", "list"} => store' = store ]_vars

\* C10 witness: a delete removed one record and the store still holds
\* another, of the same submitter.
C10_Witness ==
    /\ req.op = "delete"
    /\ resp.status = 204
    /\ store # <<>>
    /\ \E i \in DOMAIN store : store[i].response # None

\* C11: every stored record has a non-empty name, email and message,
\* whatever forms (blank ones included, which the client strips) were
\* submitted.
C11_FieldsNonEmpty ==
    \A id \in DOMAIN store :
      /\ store[id].name # <<>>
      /\ store[id].email # <<>>
      /\ store[id].message # <<>>

\* The dashboard displays exactly the records the store holds now.
ShowsCurrent(cards, s) ==
    /\ Len(cards) = Cardinality(DOMAIN s)
    /\ \A id \in DOMAIN s : \E k \in 1..Len(cards) : cards[k] = id

Unreachable(outcome) == outcome \in {"refused", "connect_timeout"}

Blank(text) == \A k \in 1..Len(text) : text[k] \in {" ", "\t", "\n"}

C14_FailureLeavesStore ==
    [][ ( /\ view' \in {"feedback", "respond"}
          /\ flashed'[1].category \in {"danger", "warning"} )
        => store' = store ]_vars

\* C15: a request of the submit, dashboard or respond route that times out
\* is reported as the connectivity error, as when the API is unreachable.
C15_TimeoutAsConnectivity ==
    ( /\ view \in {"feedback", "admin", "respond"}
      /\ calls = 1
      /\ net \in {"connect_timeout", "read_timeout"} )
    => flashed = <<CannotReach>>

\* C16: a request answered 422 (create, or a body the schema rejects) or
\* 404 (get, delete, respond) leaves the store as it was: the same records
\* with the same fields, and the same id sequence.
C16_ErrorLeavesStore ==
    [][ resp'.status \in {404, 422} => (store' = store /\ seq' = seq) ]_vars

\* C16 witness: a respond on an absent id was answered 404 while the store
\* held a responded record.
C16_Witness ==
    /\ req.op = "respond"
    /\ resp.status = 404
    /\ \E i \in DOMAIN store : store[i].response # None

\* C17: with handlers interleaved between query and commit, every record
\* has both of response and responded_at or neither, and a record a delete
\* has removed is in the store after no step: not after the commit of a
\* respond that had read it before the delete committed.
C17_AtomicPerRecord ==
    [][ /\ \A id \in DOMAIN store' :
             (store'[id].responded_at # None) <=> (store'[id].response # None)
        /\ \A id \in assigned \ DOMAIN store : id \notin DOMAIN store' ]_vars

\* C17 witness: a respond that had read its record committed after a
\* delete of the record had: it was answered a server error, and the
\* record is absent.
C17_Witness ==
    /\ req.op = "respond"
    /\ resp.status = 500
    /\ req.id \in assigned
    /\ req.id \notin DOMAIN store

====
